---- MODULE Spec2Model ----
(***************************************************************************)
(* Batch dispatch and scheduling engine of the channel manager bot         *)
(* (src/main.py): the persisted store (ConfigManager), the schedule        *)
(* handlers, the dispatch run (execute_post) and the Run Driver            *)
(* (run_scheduled_jobs).                                                   *)
(*                                                                         *)
(* Time is counted in whole minutes (schedule times are entered as         *)
(* YYYY-MM-DD HH:MM); Sec(m) converts to the seconds the code compares.    *)
(* The process is one asyncio event loop: a handler or the driver runs     *)
(* without interruption between two awaits, so one action is the code from *)
(* one await to the next.  Objects that the code shares by reference (the  *)
(* config dict, the job dicts) are modelled with an alias flag: a holder   *)
(* whose flag is TRUE sees the document ConfigManager currently holds, a   *)
(* holder whose flag is FALSE holds a detached copy.                       *)
(***************************************************************************)
EXTENDS Integers, Sequences, FiniteSets, TLC

(* -------- bounds of the model -------- *)
MaxClock == 10
MaxJobs == 2
MaxMsgs == 2
MaxRetryChoice == 2
MaxCrashes == 1
MaxPosts == 2
MaxFileMsgs == 1

(* -------- program constants -------- *)
MAX_BATCH_MESSAGES == 100
BATCH_EXPIRY_HOURS == 6
SCHEDULE_EXPIRY_DAYS == 7
MAX_RETRIES == 3
POST_DELAY_TENTHS == 1
MAX_DELAY_TENTHS == 50
MAX_RETRIES_SETTING == 10
CACHE_SECONDS == 60
CONFLICT_SECONDS == 300
MIN_LEAD_MINUTES == 5
POLL_SECONDS == 60
DAY_SECONDS == 86400

FIXED_CHANNELS == {"-1002504723776", "-1002489624380"}

Operators == {"op1"}
Runners == Operators \cup {"driver"}

VARIABLES
  clock,        \* wall clock, minutes
  alive,        \* the process is running
  disk,         \* the document in CONFIG_FILE
  mem,          \* ConfigManager._config
  last_loaded,  \* ConfigManager._last_loaded
  user_data,    \* context.user_data of each operator session
  next_job,     \* next fresh job id (uuid4)
  next_msg,     \* next fresh message id
  next_post,    \* next fresh run id (post_id, uuid4)
  driver,       \* position and locals of run_scheduled_jobs
  run,          \* position and locals of execute_post, per caller
  transport,    \* how the transport collaborator answers delivery calls
  store,        \* CONFIG_FILE, CONFIG_LOCK and the position of a ConfigManager call
  hist          \* history of the jobs, for the properties only

vars == <<clock, alive, disk, mem, last_loaded, user_data, next_job, next_msg, next_post, driver, run, transport, store, hist>>

Sec(m) == m * 60

Abs(n) == IF n < 0 THEN 0 - n ELSE n

RECURSIVE SetToSeq(_)
\* the elements of a set of integers, ascending (dict insertion order of the
\* job table: ids are handed out in creation order)
SetToSeq(S) ==
  IF S = {} THEN <<>>
  ELSE LET m == CHOOSE x \in S : \A y \in S : x <= y
       IN  <<m>> \o SetToSeq(S \ {m})

(* -------- channel identifiers -------- *)
\* The characters of each identifier that can reach a selection: the two
\* fixed channels, a channel an operator adds, and the tokens button_handler
\* extracts from the callback data of an inline-search button and of the
\* notifications button.
Chars(id) ==
  CASE id = "-1002504723776" -> <<"-","1","0","0","2","5","0","4","7","2","3","7","7","6">>
    [] id = "-1002489624380" -> <<"-","1","0","0","2","4","8","9","6","2","4","3","8","0">>
    [] id = "-1001234567890" -> <<"-","1","0","0","1","2","3","4","5","6","7","8","9","0">>
    [] id = "channel" -> <<"c","h","a","n","n","e","l">>
    [] id = "notifications" -> <<"n","o","t","i","f","i","c","a","t","i","o","n","s">>
    [] OTHER -> <<>>

Digits == {"0","1","2","3","4","5","6","7","8","9"}

\* a validation that lets every identifier through
validate_channel_id_any(channel_id) == TRUE

\* re.match(r"^-100\d{10,}$", channel_id)
validate_channel_id(channel_id) ==
  LET s == Chars(channel_id)
  IN  /\ Len(s) >= 14
      /\ s[1] = "-" /\ s[2] = "1" /\ s[3] = "0" /\ s[4] = "0"
      /\ \A i \in 5..Len(s) : s[i] \in Digits

\* iteration order of a channel set: one fixed order for the model
CHANNEL_ORDER == <<"-1002504723776", "-1002489624380", "-1001234567890", "channel", "notifications">>

ChannelList(S) == SelectSeq(CHANNEL_ORDER, LAMBDA c : c \in S)

(* -------- persisted store -------- *)
NoJobs == [j \in {} |-> 0]

\* delays are counted in tenths of a second
DefaultSettings == [default_delay |-> POST_DELAY_TENTHS, max_retries |-> MAX_RETRIES, notifications |-> TRUE, footer |-> ""]

\* ConfigManager._initialize_default_config
_initialize_default_config ==
  [scheduled_posts |-> NoJobs, settings |-> DefaultSettings, stats |-> [posts |-> 0, batches |-> 0],
   channels |-> [c \in {} |-> 0], admin_stats |-> [a \in {} |-> 0], post_analytics |-> [p \in {} |-> 0]]

\* CONFIG_FILE as _load finds it: in place with a parsable document,
\* missing, not parsable, not readable, or readable but not writable
FileStates == {"present", "missing", "corrupt", "unreadable", "readonly"}

\* open(CONFIG_FILE, "r") and json.load succeed
Readable(f) == f \in {"present", "readonly"}

\* open(CONFIG_FILE, "w") raises
WriteRefused(f) == f \in {"unreadable", "readonly"}

\* the file is in place, no FileLock object holds CONFIG_LOCK and no
\* ConfigManager call is under way; unsaved marks a document whose last save
\* failed and edited a file changed from outside since the process last read
\* or wrote it, both for the properties
FileInPlace == [file |-> "present", lock |-> {}, pc |-> "idle", ret |-> "idle", unsaved |-> FALSE, edited |-> FALSE, caller |-> ""]

\* the file holds a document that json.load can parse
Intact(f) == f \in {"present", "unreadable", "readonly"}

\* get_config reloads when (now - _last_loaded).seconds > 60
Stale == (Sec(clock - last_loaded) % DAY_SECONDS) > CACHE_SECONDS

\* a load that forgets the file and installs the default document
_load_default(file) == _initialize_default_config

\* ConfigManager._load with the file present: the parsed file
_load(file) == file

\* the document get_config returns
get_config == IF Stale THEN _load(disk) ELSE mem

\* remove a key from a dict
Pop(f, k) == [x \in (DOMAIN f) \ {k} |-> f[x]]

\* dict[k] = v
Put(f, k, v) == [x \in (DOMAIN f) \cup {k} |-> IF x = k THEN v ELSE f[x]]

(* -------- validation and conflict rules -------- *)
\* a validation that accepts every well-formed time
validate_schedule_time_any(t) == TRUE

\* validate_schedule_time on a well-formed "YYYY-MM-DD HH:MM" input t:
\* rejected when dt < now + 5 minutes
validate_schedule_time(t) == ~(t < clock + MIN_LEAD_MINUTES)

\* a conflict test that also counts a job exactly CONFLICT_SECONDS away
check_schedule_conflict_incl(config, schedule_dt, channels) ==
  \E j \in DOMAIN config.scheduled_posts :
     LET job_data == config.scheduled_posts[j]
     IN  /\ Abs(Sec(job_data.time - schedule_dt)) <= CONFLICT_SECONDS
         /\ (job_data.channels \cap channels) # {}

\* check_schedule_conflict(config, schedule_dt, channels)
check_schedule_conflict(config, schedule_dt, channels) ==
  \E j \in DOMAIN config.scheduled_posts :
     LET job_data == config.scheduled_posts[j]
     IN  /\ Abs(Sec(job_data.time - schedule_dt)) < CONFLICT_SECONDS
         /\ (job_data.channels \cap channels) # {}

(* -------- aliasing of the shared dicts -------- *)
\* _load rebinds ConfigManager._config to a new dict: every local that still
\* points at the old dict keeps it, detached from the store
DetachRun(rs) == [rs EXCEPT !.cfg_live = FALSE, !.settings = IF rs.cfg_live THEN mem.settings ELSE @]

DetachEntry(e) == [e EXCEPT !.aliased = FALSE]

DetachQueue(q) == [i \in 1..Len(q) |-> DetachEntry(q[i])]

RunsAfterGet(rn) == IF Stale THEN [r \in Runners |-> DetachRun(rn[r])] ELSE rn

DriverAfterGet(d) == IF Stale THEN [d EXCEPT !.queue = DetachQueue(d.queue)] ELSE d

LoadedAfterGet == IF Stale THEN clock ELSE last_loaded

(* -------- inputs the operator can type -------- *)
FirstTime == 5

\* schedule times an operator enters: 4 and 5 minutes apart, to sit on both
\* sides of the 300-second window
ScheduleTimes == {FirstTime, FirstTime + 4, FirstTime + 5}

\* callback data of the channel buttons, split at "_": the keyboard buttons
\* carry toggle_<cid>, the inline-search result buttons toggle_channel_<cid>
ToggleData == {<<"toggle", c>> : c \in FIXED_CHANNELS} \cup {<<"toggle", "channel", c>> : c \in FIXED_CHANNELS}

(* -------- initial state -------- *)
NoUserData == [has_batch |-> FALSE, batch |-> <<>>, batch_created |-> 0 - 1, selected_channels |-> {}, schedule_input |-> "", reschedule_job_id |-> 0, settings_input |-> "", channel_input |-> ""]

IdleRun == [pc |-> "idle", batch_ids |-> <<>>, chans |-> <<>>, is_scheduled |-> FALSE, job_id |-> 0, cfg_live |-> FALSE, max_retries |-> 0, footer |-> "", delay |-> 0, settings |-> DefaultSettings, cell |-> 0, attempt |-> 0, success_count |-> 0, failed_posts |-> [c \in {} |-> <<>>], completed_operations |-> 0, copies |-> 0, footers |-> 0, user_id |-> "", post_id |-> 0, ok_on |-> [c \in {} |-> 0], snapshot |-> [completed |-> 0, succeeded |-> 0, failed |-> 0, remaining |-> 0]]

IdleDriver == [pc |-> "ready", wake |-> 0, now |-> 0, queue |-> <<>>, job |-> 0]

FreeTransport == [free |-> TRUE, fail_on |-> {}]

\* started: jobs handed to execute_post; completed: jobs whose run reached
\* its end; rerun: jobs started again after a completed run; cancelled: jobs
\* an operator cancelled before any run of them was started or launched;
\* refused: a create request was refused while the table held a job;
\* rejected: a run request without messages or channels was rejected while
\* the batch or the selection was not empty and the counters were not zero
NoHist == [started |-> {}, completed |-> {}, rerun |-> {}, cancelled |-> {}, started_after_cancel |-> {}, purged |-> {}, interrupted |-> {}, crashes |-> 0, refused |-> FALSE, rejected |-> FALSE, kept |-> FALSE]

InitDocs == {[_initialize_default_config EXCEPT !.settings = [DefaultSettings EXCEPT !.max_retries = r, !.footer = f]] : r \in 1..MaxRetryChoice, f \in {"", "footer"}}

\* the operator has put one message in the batch
Init ==
  /\ clock = 0
  /\ alive = TRUE
  /\ disk = [_initialize_default_config EXCEPT !.settings = [DefaultSettings EXCEPT !.max_retries = 1]]
  /\ mem = disk
  /\ last_loaded = 0
  /\ user_data = [o \in Operators |-> [NoUserData EXCEPT !.has_batch = TRUE, !.batch = <<1>>, !.batch_created = 0]]
  /\ next_job = 1
  /\ next_msg = 2
  /\ next_post = 1
  /\ driver = IdleDriver
  /\ run = [r \in Runners |-> IdleRun]
  /\ transport = FreeTransport
  /\ store = FileInPlace
  /\ hist = NoHist

(* -------- time -------- *)
\* await asyncio.sleep(60) returns once the clock has reached the wake time
Woken(d, now) == IF d.pc = "sleep" /\ now >= d.wake THEN [d EXCEPT !.pc = "ready", !.wake = 0] ELSE d

\* the clock is observed every MIN_LEAD_MINUTES minutes
Tick ==
  /\ UNCHANGED store
  /\ clock < MaxClock
  /\ clock' = clock + MIN_LEAD_MINUTES
  /\ driver' = Woken(driver, clock')
  /\ UNCHANGED <<alive, disk, mem, last_loaded, user_data, next_job, next_msg, next_post, run, transport, hist>>

\* more than SCHEDULE_EXPIRY_DAYS go by at once
LongWait ==
  /\ UNCHANGED store
  /\ clock <= MaxClock
  /\ clock' = clock + (SCHEDULE_EXPIRY_DAYS * 24 * 60) + 1
  /\ driver' = Woken(driver, clock')
  /\ UNCHANGED <<alive, disk, mem, last_loaded, user_data, next_job, next_msg, next_post, run, transport, hist>>

(* -------- operator handlers -------- *)
\* main(): the Application is built without concurrent updates, so the
\* handlers of the operators run one after the other
HandlerFree == alive /\ \A o \in Operators : run[o].pc = "idle"

\* a handler that only reads the store through get_config
StoreRead ==
  /\ mem' = get_config
  /\ last_loaded' = LoadedAfterGet
  /\ UNCHANGED disk

\* a handler that changes the document get_config returned and saves it
StoreWrite(doc) ==
  /\ mem' = doc
  /\ disk' = doc
  /\ last_loaded' = clock

\* add_to_batch, a single text or media message (is_admin reads the store;
\* in input mode the message is ignored)
add_to_batch(op) ==
  LET ud == user_data[op]
      ud1 == IF ~ud.has_batch THEN [ud EXCEPT !.has_batch = TRUE, !.batch = <<>>, !.batch_created = clock] ELSE ud
      expired == ud1.batch_created >= 0 /\ Sec(clock - ud1.batch_created) > BATCH_EXPIRY_HOURS * 3600
      ud2 == IF expired THEN [ud1 EXCEPT !.batch = <<>>, !.batch_created = clock] ELSE ud1
  IN  /\ UNCHANGED store
      /\ HandlerFree
      /\ next_msg <= MaxMsgs
      /\ next_msg' = next_msg + 1
      /\ user_data' = [user_data EXCEPT ![op] =
            IF ud.schedule_input # "" \/ ud.settings_input # "" \/ ud.channel_input # "" THEN ud
            ELSE IF Len(ud2.batch) >= MAX_BATCH_MESSAGES THEN ud2
            ELSE [ud2 EXCEPT !.batch = Append(ud2.batch, next_msg)]]
      /\ StoreRead
      /\ run' = RunsAfterGet(run)
      /\ driver' = DriverAfterGet(driver)
      /\ UNCHANGED <<clock, alive, next_job, next_post, transport, hist>>

\* the batch after the loop over the messages of a text file (lines
\* 854-863): each is sent to the operator's chat and the id of the sent
\* message is appended, until the batch is full
RECURSIVE AppendSent(_, _, _)
AppendSent(batch, first, n) ==
  IF n = 0 \/ Len(batch) >= MAX_BATCH_MESSAGES THEN batch
  ELSE AppendSent(Append(batch, first), first + 1, n - 1)

\* add_to_batch, a text/plain document that holds n valid messages: the
\* document is message next_msg, the messages sent for its parts follow.
\* After the reply that ends the file branch the handler goes on with the
\* checks of a single message and appends the document itself (line 907)
add_text_file(op, n) ==
  LET ud == user_data[op]
      ud1 == IF ~ud.has_batch THEN [ud EXCEPT !.has_batch = TRUE, !.batch = <<>>, !.batch_created = clock] ELSE ud
      expired == ud1.batch_created >= 0 /\ Sec(clock - ud1.batch_created) > BATCH_EXPIRY_HOURS * 3600
      ud2 == IF expired THEN [ud1 EXCEPT !.batch = <<>>, !.batch_created = clock] ELSE ud1
      sent == AppendSent(ud2.batch, next_msg + 1, n)
      added == Len(sent) - Len(ud2.batch)
      ignored == ud.schedule_input # "" \/ ud.settings_input # "" \/ ud.channel_input # ""
      full == Len(ud2.batch) >= MAX_BATCH_MESSAGES
  IN  /\ UNCHANGED store
      /\ HandlerFree
      /\ next_msg + n <= MaxMsgs
      /\ next_msg' = IF ignored \/ full THEN next_msg + 1 ELSE next_msg + 1 + added
      /\ user_data' = [user_data EXCEPT ![op] =
            IF ignored THEN ud
            ELSE IF full \/ n = 0 THEN ud2
            ELSE [ud2 EXCEPT !.batch = Append(sent, next_msg)]]
      /\ StoreRead
      /\ run' = RunsAfterGet(run)
      /\ driver' = DriverAfterGet(driver)
      /\ UNCHANGED <<clock, alive, next_job, next_post, transport, hist>>

\* button_handler "batch_clear" -> clear_batch
clear_batch(op) ==
  /\ UNCHANGED store
  /\ HandlerFree
  /\ user_data' = [user_data EXCEPT ![op].has_batch = TRUE, ![op].batch = <<>>, ![op].batch_created = 0 - 1]
  /\ StoreRead
  /\ run' = RunsAfterGet(run)
  /\ driver' = DriverAfterGet(driver)
  /\ UNCHANGED <<clock, alive, next_job, next_msg, next_post, transport, hist>>

\* button_handler, data.startswith("toggle_"): channel_id = data.split("_")[1];
\* is_admin reads the store
toggle(op, data) ==
  LET channel_id == data[2]
      sel == user_data[op].selected_channels
  IN  /\ UNCHANGED store
      /\ HandlerFree
      /\ user_data' = [user_data EXCEPT ![op].selected_channels =
            IF channel_id \in sel THEN sel \ {channel_id} ELSE sel \cup {channel_id}]
      /\ StoreRead
      /\ run' = RunsAfterGet(run)
      /\ driver' = DriverAfterGet(driver)
      /\ UNCHANGED <<clock, alive, next_job, next_msg, next_post, transport, hist>>

\* button_handler "batch_schedule_menu" -> schedule_batch_menu
schedule_batch_menu(op) ==
  /\ UNCHANGED store
  /\ HandlerFree
  /\ user_data[op].batch # <<>>
  /\ user_data[op].schedule_input # "schedule_batch"
  /\ user_data' = [user_data EXCEPT ![op].schedule_input = "schedule_batch"]
  /\ StoreRead
  /\ run' = RunsAfterGet(run)
  /\ driver' = DriverAfterGet(driver)
  /\ UNCHANGED <<clock, alive, next_job, next_msg, next_post, transport, hist>>

\* button_handler, data.startswith("reschedule_")
reschedule_prompt(op, job_id) ==
  /\ UNCHANGED store
  /\ HandlerFree
  /\ job_id < next_job
  /\ user_data' = [user_data EXCEPT ![op].reschedule_job_id = job_id, ![op].schedule_input = "reschedule_batch"]
  /\ StoreRead
  /\ run' = RunsAfterGet(run)
  /\ driver' = DriverAfterGet(driver)
  /\ UNCHANGED <<clock, alive, next_job, next_msg, next_post, transport, hist>>

\* config["scheduled_posts"][job_id]["time"] = ... changes the job dict in
\* place: a poll snapshot that still shares the dict sees the new time
RetimeQueue(q, job_id, t) ==
  [i \in 1..Len(q) |-> IF q[i].id = job_id /\ q[i].aliased THEN [q[i] EXCEPT !.time = t] ELSE q[i]]

\* the branch handle_schedule_input takes (lines 2139-2201) on the text the
\* operator sent: wellformed says whether it parses as YYYY-MM-DD HH:MM, t is
\* the time it denotes
schedule_verdict(op, wellformed, t) ==
  LET ud == user_data[op]
      config == get_config
  IN  IF ~(wellformed /\ validate_schedule_time(t)) THEN "invalid_time"
      ELSE IF ud.batch = <<>> \/ ud.selected_channels = {} THEN "nothing_selected"
      ELSE IF check_schedule_conflict(config, t, ud.selected_channels) THEN "conflict"
      ELSE IF ud.schedule_input = "schedule_batch" THEN "scheduled"
      ELSE IF ud.reschedule_job_id = 0 \/ ud.reschedule_job_id \notin DOMAIN config.scheduled_posts THEN "job_not_found"
      ELSE "rescheduled"

\* the job dict stored by a create (lines 2175-2181)
NewJob(op, t) ==
  [time |-> t, batch_ids |-> user_data[op].batch, batch_size |-> Len(user_data[op].batch),
   channels |-> user_data[op].selected_channels, user_id |-> op]

\* a reschedule that stores the operator's current batch and selection anew
Retimed_anew(job, op, t) == NewJob(op, t)

\* the job dict after a reschedule (line 2203): only "time" is assigned
Retimed(job, op, t) == [job EXCEPT !.time = t]

\* handle_schedule_input
handle_schedule_input(op, wellformed, t) ==
  LET ud == user_data[op]
      config == get_config
      job_id == ud.reschedule_job_id
      verdict == schedule_verdict(op, wellformed, t)
  IN  /\ UNCHANGED store
      /\ HandlerFree
      /\ ud.schedule_input # ""
      /\ run' = RunsAfterGet(run)
      /\ UNCHANGED <<clock, alive, next_msg, next_post, transport>>
      /\ hist' = [hist EXCEPT !.refused = @ \/ ( /\ ud.schedule_input = "schedule_batch"
                                                /\ verdict \in {"invalid_time", "nothing_selected", "conflict"}
                                                /\ DOMAIN config.scheduled_posts # {} )]
      /\ CASE verdict = "scheduled" ->
                /\ next_job <= MaxJobs
                /\ next_job' = next_job + 1
                /\ StoreWrite([config EXCEPT !.scheduled_posts = Put(config.scheduled_posts, next_job, NewJob(op, t))])
                /\ user_data' = [user_data EXCEPT ![op].schedule_input = ""]
                /\ driver' = DriverAfterGet(driver)
           [] verdict = "rescheduled" ->
                /\ StoreWrite([config EXCEPT !.scheduled_posts[job_id] = Retimed(@, op, t)])
                /\ user_data' = [user_data EXCEPT ![op].reschedule_job_id = 0, ![op].schedule_input = ""]
                /\ driver' = [DriverAfterGet(driver) EXCEPT !.queue = RetimeQueue(DriverAfterGet(driver).queue, job_id, t)]
                /\ UNCHANGED next_job
           [] OTHER ->
                /\ StoreRead
                /\ user_data' = [user_data EXCEPT ![op] =
                      IF verdict = "nothing_selected" THEN [ud EXCEPT !.schedule_input = ""]
                      ELSE IF verdict = "job_not_found" THEN [ud EXCEPT !.reschedule_job_id = 0]
                      ELSE ud]
                /\ driver' = DriverAfterGet(driver)
                /\ UNCHANGED next_job

\* button_handler, data.startswith("schedule_delete_")
schedule_delete(op, job_id) ==
  LET config == get_config
  IN  /\ UNCHANGED store
      /\ HandlerFree
      /\ job_id < next_job
      /\ run' = RunsAfterGet(run)
      /\ driver' = DriverAfterGet(driver)
      /\ UNCHANGED <<clock, alive, user_data, next_job, next_msg, next_post, transport>>
      /\ IF job_id \in DOMAIN config.scheduled_posts
         THEN /\ StoreWrite([config EXCEPT !.scheduled_posts = Pop(config.scheduled_posts, job_id)])
              /\ hist' = [hist EXCEPT !.cancelled = IF job_id \notin hist.started /\ driver.job # job_id THEN @ \cup {job_id} ELSE @]
         ELSE /\ StoreRead
              /\ UNCHANGED hist

(* -------- the channel roster -------- *)
\* the keys of get_all_channels(): the fixed channels and the channels of
\* the document
Roster(config) == FIXED_CHANNELS \cup DOMAIN config.channels

\* button_handler "select_all"
select_all(op) ==
  /\ UNCHANGED store
  /\ HandlerFree
  /\ user_data' = [user_data EXCEPT ![op].selected_channels = Roster(get_config)]
  /\ StoreRead
  /\ run' = RunsAfterGet(run)
  /\ driver' = DriverAfterGet(driver)
  /\ UNCHANGED <<clock, alive, next_job, next_msg, next_post, transport, hist>>

ChannelPrompts == {"add_channel", "delete_channel"}

\* button_handler "channel_add" / "channel_remove" -> add_channel_prompt,
\* remove_channel_prompt
channel_prompt(op, kind) ==
  /\ UNCHANGED store
  /\ HandlerFree
  /\ user_data[op].channel_input # kind
  /\ user_data' = [user_data EXCEPT ![op].channel_input = kind]
  /\ StoreRead
  /\ run' = RunsAfterGet(run)
  /\ driver' = DriverAfterGet(driver)
  /\ UNCHANGED <<clock, alive, next_job, next_msg, next_post, transport, hist>>

\* a roster view that lists only the channels of the document
get_all_channels_listed(config) ==
  [c \in DOMAIN config.channels |->
     [fixed |-> c \in FIXED_CHANNELS, post_count |-> IF c \in DOMAIN config.channels THEN config.channels[c] ELSE 0]]

\* ConfigManager.get_all_channels on a document: every fixed channel with
\* fixed = True and every other listed channel with fixed = False, each
\* with its counter
get_all_channels(config) ==
  [c \in FIXED_CHANNELS \cup DOMAIN config.channels |->
     [fixed |-> c \in FIXED_CHANNELS, post_count |-> IF c \in DOMAIN config.channels THEN config.channels[c] ELSE 0]]

\* the channels of the document after handle_channel_input was given the
\* ID cid (for an add: the ID followed by a name)
channels_after(config, channel_input, cid) ==
  IF ~validate_channel_id(cid) \/ cid \in FIXED_CHANNELS THEN config.channels
  ELSE IF channel_input = "add_channel"
       THEN IF cid \in DOMAIN config.channels THEN config.channels ELSE Put(config.channels, cid, 0)
       ELSE IF cid \in DOMAIN config.channels THEN Pop(config.channels, cid) ELSE config.channels

\* handle_channel_input: a text that is not a well-formed ID leaves the
\* prompt open, every other text closes it
handle_channel_input(op, cid) ==
  LET ud == user_data[op]
      config == get_config
      after == channels_after(config, ud.channel_input, cid)
  IN  /\ UNCHANGED store
      /\ HandlerFree
      /\ ud.channel_input \in ChannelPrompts
      /\ run' = RunsAfterGet(run)
      /\ driver' = DriverAfterGet(driver)
      /\ hist' = [hist EXCEPT !.kept = @ \/ (ud.channel_input = "delete_channel" /\ cid \in FIXED_CHANNELS /\ DOMAIN config.channels # {})]
      /\ UNCHANGED <<clock, alive, next_job, next_msg, next_post, transport>>
      /\ IF after # config.channels
         THEN StoreWrite([config EXCEPT !.channels = after])
         ELSE StoreRead
      /\ user_data' = [user_data EXCEPT ![op].channel_input = IF validate_channel_id(cid) THEN "" ELSE @]

(* -------- settings handlers -------- *)
\* the texts an operator sends to a settings prompt: numerals and words
(* numeric says whether float()/int() accept the text, n is the number *)
SettingsTexts ==
  {[numeric |-> TRUE, n |-> 2, text |-> "2"], [numeric |-> TRUE, n |-> MAX_RETRIES_SETTING + 1, text |-> "11"],
   [numeric |-> FALSE, n |-> 0, text |-> "clear"]}

SettingsPrompts == {"set_delay", "set_retries", "set_footer"}

\* button_handler "set_delay" / "set_retries" / "set_footer" ->
\* set_delay_prompt, set_retries_prompt, set_footer_prompt
settings_prompt(op, kind) ==
  /\ UNCHANGED store
  /\ HandlerFree
  /\ user_data[op].settings_input # kind
  /\ user_data' = [user_data EXCEPT ![op].settings_input = kind]
  /\ StoreRead
  /\ run' = RunsAfterGet(run)
  /\ driver' = DriverAfterGet(driver)
  /\ UNCHANGED <<clock, alive, next_job, next_msg, next_post, transport, hist>>

\* the settings dict after handle_settings_input accepted the text, or the
\* same dict when it refused it
settings_after(settings, settings_input, t) ==
  CASE settings_input = "set_delay" /\ t.numeric /\ 0 <= t.n * 10 /\ t.n * 10 <= MAX_DELAY_TENTHS ->
          [settings EXCEPT !.default_delay = t.n * 10]
    [] settings_input = "set_retries" /\ t.numeric /\ 1 <= t.n /\ t.n <= MAX_RETRIES_SETTING ->
          [settings EXCEPT !.max_retries = t.n]
    [] settings_input = "set_footer" ->
          [settings EXCEPT !.footer = IF t.text = "clear" THEN "" ELSE t.text]
    [] OTHER -> settings

\* the text is accepted by the prompt that is open
settings_accepted(settings_input, t) ==
  \/ settings_input = "set_footer"
  \/ settings_input = "set_delay" /\ t.numeric /\ 0 <= t.n * 10 /\ t.n * 10 <= MAX_DELAY_TENTHS
  \/ settings_input = "set_retries" /\ t.numeric /\ 1 <= t.n /\ t.n <= MAX_RETRIES_SETTING

\* handle_settings_input, the three settings prompts
handle_settings_input(op, t) ==
  LET ud == user_data[op]
      config == get_config
  IN  /\ UNCHANGED store
      /\ HandlerFree
      /\ ud.settings_input \in SettingsPrompts
      /\ run' = RunsAfterGet(run)
      /\ driver' = DriverAfterGet(driver)
      /\ UNCHANGED <<clock, alive, next_job, next_msg, next_post, transport, hist>>
      /\ IF settings_accepted(ud.settings_input, t)
         THEN /\ StoreWrite([config EXCEPT !.settings = settings_after(config.settings, ud.settings_input, t)])
              /\ user_data' = [user_data EXCEPT ![op].settings_input = ""]
         ELSE /\ StoreRead
              /\ UNCHANGED user_data

(* -------- the dispatch run: execute_post -------- *)
total_operations(rs) == Len(rs.batch_ids) * Len(rs.chans)

\* a numbering that takes the messages in turn within each channel
CellMessage_inner(rs, k) == rs.batch_ids[(k % Len(rs.batch_ids)) + 1]

\* the cells are numbered 0 .. total-1 in the order of the two nested loops
CellMessage(rs, k) == rs.batch_ids[(k \div Len(rs.chans)) + 1]

CellChannel(rs, k) == rs.chans[(k % Len(rs.chans)) + 1]

\* failed_posts.setdefault(ch_id, []).append({"error": ..., "message_id": ...});
\* tries is the number of delivery attempts the cell had, kept for the
\* properties
RecordFailure(failed_posts, ch_id, batch_id, error, tries) ==
  LET old == IF ch_id \in DOMAIN failed_posts THEN failed_posts[ch_id] ELSE <<>>
  IN  Put(failed_posts, ch_id, Append(old, [message_id |-> batch_id, error |-> error, tries |-> tries]))

\* sum(len(errors) for errors in failed_posts.values())
RECURSIVE SumLens(_, _)
SumLens(f, S) ==
  IF S = {} THEN 0
  ELSE LET c == CHOOSE x \in S : TRUE
       IN  Len(f[c]) + SumLens(f, S \ {c})

FailedCount(rs) == SumLens(rs.failed_posts, DOMAIN rs.failed_posts)

\* a failure is recorded without the last check of the retry loop
IsLastAttempt_Never(attempt, max_retries) == attempt = max_retries + 1

\* if attempt == max_retries: the failure is recorded on the last attempt
IsLastAttempt(attempt, max_retries) == attempt = max_retries

\* for attempt in range(max_retries + 1): attempt was the last value
RangeExhausted(attempt, max_retries) == attempt + 1 >= max_retries + 1

\* cells on a channel that fails validate_channel_id are recorded as failed
\* and skipped with `continue`, without an await and without counting the
\* cell as completed
RECURSIVE SkipInvalid(_)
SkipInvalid(rs) ==
  IF rs.attempt = 0 /\ rs.cell < total_operations(rs) /\ ~validate_channel_id(CellChannel(rs, rs.cell))
  THEN SkipInvalid([rs EXCEPT !.failed_posts = RecordFailure(rs.failed_posts, CellChannel(rs, rs.cell), CellMessage(rs, rs.cell), "Invalid channel ID", 0),
                              !.cell = rs.cell + 1])
  ELSE rs

\* lines 1187-1220: the copies of the batch and the selection, the caller's
\* id, the config reference, the settings read from it and the fresh post_id
Prologue(batch, selected_channels, is_scheduled, job_id, config, user_id, post_id) ==
  [IdleRun EXCEPT !.pc = "begin", !.batch_ids = batch, !.chans = ChannelList(selected_channels),
                  !.is_scheduled = is_scheduled, !.job_id = job_id, !.cfg_live = TRUE,
                  !.delay = config.settings.default_delay,
                  !.max_retries = config.settings.max_retries, !.footer = config.settings.footer,
                  !.user_id = user_id, !.post_id = post_id]

\* a run that would read every setting from the store each time it needs it
RunSettings_live(rs) ==
  [delay |-> mem.settings.default_delay, max_retries |-> mem.settings.max_retries,
   footer |-> mem.settings.footer, notifications |-> mem.settings.notifications]

\* the settings a run acts on: the locals delay, max_retries and footer
\* (lines 1206-1208) and, for settings.get("notifications") at line 1341,
\* the settings dict the run got at line 1205, which is the store's dict
\* until a reload rebinds the store
RunSettings(rs) ==
  [delay |-> rs.delay, max_retries |-> rs.max_retries, footer |-> rs.footer,
   notifications |-> IF rs.cfg_live THEN mem.settings.notifications ELSE rs.settings.notifications]

\* update_interval = max(1, total_operations // 10)
update_interval(rs) == IF total_operations(rs) \div 10 >= 1 THEN total_operations(rs) \div 10 ELSE 1

\* the progress text of lines 1281-1291 for the counters of the run
ProgressText(rs) ==
  [completed |-> rs.completed_operations, succeeded |-> rs.success_count, failed |-> FailedCount(rs),
   remaining |-> total_operations(rs) - rs.completed_operations]

\* lines 1277-1301, after a cell was processed: the progress message is
\* edited when the cadence or the end is reached; snapshot is the last text
\* handed to edit_message_text, kept for the properties
Progress(rs) ==
  IF rs.completed_operations % update_interval(rs) = 0 \/ rs.completed_operations = total_operations(rs)
  THEN [rs EXCEPT !.snapshot = ProgressText(rs)]
  ELSE rs

\* one pass of `for attempt in range(max_retries + 1)` on the current cell:
\* "ok" when copy_message and the footer send both return, "copy_fail" when
\* send_chat_action or copy_message raises, "footer_fail" when the message
\* was copied and the footer send raises.  copies counts the copies of the
\* message the channel received for this cell and footers the footer
\* send_message calls made for it; ok_on counts the cells that succeeded
\* on each channel.  All three are kept for the properties only.
AfterAttempt(rs, outcome) ==
  LET ch == CellChannel(rs, rs.cell)
      called == [rs EXCEPT !.copies = (IF rs.attempt = 0 THEN 0 ELSE @) + (IF outcome = "copy_fail" THEN 0 ELSE 1),
                           !.footers = (IF rs.attempt = 0 THEN 0 ELSE @) + (IF outcome # "copy_fail" /\ RunSettings(rs).footer # "" THEN 1 ELSE 0)]
  IN  IF outcome = "ok"
      THEN Progress([called EXCEPT !.success_count = @ + 1, !.cell = @ + 1, !.attempt = 0, !.completed_operations = @ + 1,
                                   !.ok_on = Put(@, ch, (IF ch \in DOMAIN @ THEN @[ch] ELSE 0) + 1)])
      ELSE LET noted == IF IsLastAttempt(rs.attempt, RunSettings(rs).max_retries)
                        THEN [called EXCEPT !.failed_posts = RecordFailure(rs.failed_posts, ch, CellMessage(rs, rs.cell), "TransportError", rs.attempt + 1)]
                        ELSE called
           IN  IF RangeExhausted(rs.attempt, RunSettings(rs).max_retries)
               THEN Progress([noted EXCEPT !.cell = @ + 1, !.attempt = 0, !.completed_operations = @ + 1])
               ELSE [noted EXCEPT !.attempt = @ + 1]

(* -------- the Run Driver: run_scheduled_jobs -------- *)
\* an expiry test that waits one day more
Expired_late(now, job_time) == Sec(now - job_time) > (SCHEDULE_EXPIRY_DAYS + 1) * DAY_SECONDS

\* now - job_time > timedelta(days=SCHEDULE_EXPIRY_DAYS)
Expired(now, job_time) == Sec(now - job_time) > SCHEDULE_EXPIRY_DAYS * DAY_SECONDS

\* ConfigManager._cleanup_expired_jobs: the ids it removes
expired_jobs(config, now) == {j \in DOMAIN config.scheduled_posts : Expired(now, config.scheduled_posts[j].time)}

\* list(scheduled_posts.items()): the job dicts in insertion order
Snapshot(posts) ==
  LET ids == SetToSeq(DOMAIN posts)
  IN  [i \in 1..Len(ids) |-> [id |-> ids[i], time |-> posts[ids[i]].time, batch_ids |-> posts[ids[i]].batch_ids,
                              channels |-> posts[ids[i]].channels, user_id |-> posts[ids[i]].user_id, aliased |-> TRUE]]

\* if now >= job_time
IsDue(now, job_time) == now >= job_time

\* the for loop passes the jobs that are not due without an await
RECURSIVE SkipNotDue(_, _)
SkipNotDue(q, now) ==
  IF q = <<>> THEN <<>>
  ELSE IF IsDue(now, Head(q).time) THEN q
  ELSE SkipNotDue(Tail(q), now)

\* the driver goes on with the rest of its snapshot: it stops at the await
\* of the next due job, or at the sleep that ends the poll
ContinueLoop(d, rest) ==
  LET q == SkipNotDue(rest, d.now)
  IN  IF q = <<>>
      THEN [d EXCEPT !.pc = "sleep", !.wake = clock + (POLL_SECONDS \div 60), !.now = 0, !.queue = <<>>, !.job = 0]
      ELSE [d EXCEPT !.pc = "notify", !.queue = q, !.job = Head(q).id]

\* what the caller of execute_post does when the run is over: the driver
\* goes on with its loop, button_handler just ends
DriverAfterRun(r, d) == IF r = "driver" THEN ContinueLoop(d, Tail(d.queue)) ELSE d

\* the exception of a run reaches the except clause of run_scheduled_jobs
DriverAfterRaise(r, d) == IF r = "driver" THEN [d EXCEPT !.pc = "failnotify"] ELSE d

\* a test that looks at the batch only
NothingToPost_batch(batch_ids, selected_channels) == batch_ids = <<>>

\* if not batch_ids or not selected_channels (line 1193)
NothingToPost(batch_ids, selected_channels) == batch_ids = <<>> \/ selected_channels = {}

\* button_handler "confirm_post" -> execute_post(update, context)
confirm_post(op) ==
  LET ud == user_data[op]
      config == get_config
  IN  /\ UNCHANGED store
      /\ HandlerFree
      /\ StoreRead
      /\ driver' = DriverAfterGet(driver)
      /\ UNCHANGED <<clock, alive, user_data, next_job, next_msg, transport>>
      /\ IF NothingToPost(ud.batch, ud.selected_channels)
         THEN /\ run' = RunsAfterGet(run)
              /\ hist' = [hist EXCEPT !.rejected = @ \/ ((ud.batch # <<>> \/ ud.selected_channels # {}) /\ config.stats.posts > 0)]
              /\ UNCHANGED next_post
         ELSE /\ next_post <= MaxPosts
              /\ UNCHANGED hist
              /\ run' = [RunsAfterGet(run) EXCEPT ![op] = Prologue(ud.batch, ud.selected_channels, FALSE, 0, config, op, next_post)]
              /\ next_post' = next_post + 1

\* top of the while loop: get_config, _cleanup_expired_jobs, now, the
\* snapshot of the table, and the loop up to its first await
poll ==
  LET config == get_config
      gone == expired_jobs(config, clock)
      kept == [j \in (DOMAIN config.scheduled_posts) \ gone |-> config.scheduled_posts[j]]
      d == [driver EXCEPT !.now = clock]
  IN  /\ UNCHANGED store
      /\ alive
      /\ driver.pc = "ready"
      /\ IF gone # {}
         THEN StoreWrite([config EXCEPT !.scheduled_posts = kept])
         ELSE StoreRead
      /\ driver' = ContinueLoop(d, Snapshot(kept))
      /\ run' = RunsAfterGet(run)
      /\ hist' = [hist EXCEPT !.purged = @ \cup gone]
      /\ UNCHANGED <<clock, alive, user_data, next_job, next_msg, next_post, transport>>

\* the await of send_message("Executing scheduled post...") returns or
\* raises; when it returns the driver calls execute_post, which runs up to
\* its first await
driver_notify(ok) ==
  LET e == Head(driver.queue)
      config == get_config
  IN  /\ UNCHANGED store
      /\ alive
      /\ driver.pc = "notify"
      /\ UNCHANGED <<clock, alive, user_data, next_job, next_msg, transport>>
      /\ IF ok
         THEN /\ StoreRead
              /\ driver' = [DriverAfterGet(driver) EXCEPT !.pc = "running"]
              /\ run' = [RunsAfterGet(run) EXCEPT !["driver"] = Prologue(e.batch_ids, e.channels, TRUE, e.id, config, e.user_id, next_post)]
              /\ next_post' = next_post + 1
              /\ hist' = [hist EXCEPT !.started = @ \cup {e.id},
                                      !.rerun = IF e.id \in hist.completed THEN @ \cup {e.id} ELSE @,
                                      !.started_after_cancel = IF e.id \in hist.cancelled THEN @ \cup {e.id} ELSE @]
         ELSE /\ driver' = [driver EXCEPT !.pc = "failnotify"]
              /\ UNCHANGED <<disk, mem, last_loaded, run, hist>>
              /\ UNCHANGED next_post

\* except clause of the driver: the failure notice is sent; when that send
\* raises too, the exception leaves the while loop and the coroutine ends
driver_failnotify(ok) ==
  /\ UNCHANGED store
  /\ alive
  /\ driver.pc = "failnotify"
  /\ driver' = IF ok THEN ContinueLoop(driver, Tail(driver.queue)) ELSE [driver EXCEPT !.pc = "dead", !.queue = <<>>, !.job = 0]
  /\ UNCHANGED <<clock, alive, disk, mem, last_loaded, user_data, next_job, next_msg, next_post, run, transport, hist>>

\* lines 1210-1241: the awaits before the loops.  "ok": all return.
\* "error": one inside the try raises, the except clause reports it and
\* execute_post returns False.  "raise": one outside the try raises.
run_begin(r, outcome) ==
  /\ UNCHANGED store
  /\ alive
  /\ run[r].pc = "begin"
  /\ UNCHANGED <<clock, alive, disk, mem, last_loaded, user_data, next_job, next_msg, next_post, transport, hist>>
  /\ IF outcome = "ok"
     THEN /\ run' = [run EXCEPT ![r].pc = "cells", ![r].snapshot = ProgressText(run[r])]
          /\ UNCHANGED driver
     ELSE /\ run' = [run EXCEPT ![r] = IdleRun]
          /\ driver' = IF outcome = "error" THEN DriverAfterRun(r, driver) ELSE DriverAfterRaise(r, driver)

\* the transport either answers each call as it likes, or is set to fail
\* every delivery (message or footer) to the channels of fail_on and to
\* succeed on every other
Answers(ch, outcome) == transport.free \/ (outcome = "ok" <=> ch \notin transport.fail_on)

\* one delivery attempt on the next cell of a well-formed channel, from the
\* end of the previous await to the sleep that follows the attempt
run_step(r, outcome) ==
  LET rs == SkipInvalid(run[r])
  IN  /\ UNCHANGED store
      /\ alive
      /\ run[r].pc = "cells"
      /\ rs.cell < total_operations(rs)
      /\ outcome = "footer_fail" => RunSettings(rs).footer # ""
      /\ Answers(CellChannel(rs, rs.cell), outcome)
      /\ run' = [run EXCEPT ![r] = AfterAttempt(rs, outcome)]
      /\ UNCHANGED <<clock, alive, disk, mem, last_loaded, user_data, next_job, next_msg, next_post, driver, transport, hist>>

\* an update that counts the run as a batch and forgets the posts
update_stats_batch_only(config, posts, batches, channels, admin_id, post_id) ==
  [config EXCEPT !.stats = [posts |-> config.stats.posts, batches |-> config.stats.batches + batches]]

\* ConfigManager.update_stats on the document get_config returned (the
\* timestamps last_post, last_action and timestamp are left out)
update_stats(config, posts, batches, channels, admin_id, post_id) ==
  LET listed == {channels[i] : i \in 1..Len(channels)}
      counted == {c \in listed : c \in DOMAIN config.channels \/ c \in FIXED_CHANNELS}
      old_count(c) == IF c \in DOMAIN config.channels THEN config.channels[c] ELSE 0
      old_posts == IF admin_id \in DOMAIN config.admin_stats THEN config.admin_stats[admin_id] ELSE 0
  IN  [config EXCEPT
         !.stats = [posts |-> config.stats.posts + posts, batches |-> config.stats.batches + batches],
         !.channels = [c \in (DOMAIN config.channels) \cup counted |-> old_count(c) + (IF c \in counted THEN 1 ELSE 0)],
         !.admin_stats = Put(config.admin_stats, admin_id, old_posts + posts),
         !.post_analytics = Put(config.post_analytics, post_id,
                                [channels |-> channels, post_count |-> posts, admin_id |-> admin_id,
                                 batch_size |-> posts \div Len(channels)])]

\* context.user_data after a completed run (lines 1330-1334)
ClearedUserData(ud) == [ud EXCEPT !.has_batch = TRUE, !.batch = <<>>, !.selected_channels = {}, !.batch_created = 0 - 1]

\* lines 1336-1338: config["scheduled_posts"].pop(job_id, None) acts on the
\* dict the run read at its start; it is the store's table only while that
\* dict is still the one ConfigManager holds
TableAfterRun(doc, live, is_scheduled, job_id) ==
  IF is_scheduled /\ job_id # 0 /\ live
  THEN [doc EXCEPT !.scheduled_posts = Pop(doc.scheduled_posts, job_id)]
  ELSE doc

\* lines 1305-1339, after the last cell: update_stats (get_config and save),
\* the session is cleared, the job is removed and the config saved
run_complete(r) ==
  LET rs == SkipInvalid(RunsAfterGet(run)[r])
      config == get_config
      live == rs.cfg_live
  IN  /\ UNCHANGED store
      /\ alive
      /\ run[r].pc = "cells"
      /\ rs.cell = total_operations(rs)
      /\ StoreWrite(TableAfterRun(update_stats(config, rs.success_count, 1, rs.chans, rs.user_id, rs.post_id), live, rs.is_scheduled, rs.job_id))
      /\ run' = [RunsAfterGet(run) EXCEPT ![r] = [rs EXCEPT !.pc = "summary"]]
      /\ driver' = DriverAfterGet(driver)
      /\ user_data' = IF r \in Operators THEN [user_data EXCEPT ![r] = ClearedUserData(user_data[r])] ELSE user_data
      /\ hist' = IF rs.is_scheduled THEN [hist EXCEPT !.completed = @ \cup {rs.job_id}] ELSE hist
      /\ UNCHANGED <<clock, alive, next_job, next_msg, next_post, transport>>

\* lines 1341-1358: the summary and the removal of the progress message
run_summary(r) ==
  /\ UNCHANGED store
  /\ alive
  /\ run[r].pc = "summary"
  /\ run' = [run EXCEPT ![r] = IdleRun]
  /\ driver' = DriverAfterRun(r, driver)
  /\ UNCHANGED <<clock, alive, disk, mem, last_loaded, user_data, next_job, next_msg, next_post, transport, hist>>

(* -------- process crash and restart -------- *)
RunningJobs == {j \in 1..MaxJobs : run["driver"].pc \in {"begin", "cells"} /\ run["driver"].job_id = j}

\* the process dies: everything but the file is lost
crash ==
  /\ alive
  /\ hist.crashes < MaxCrashes
  /\ alive' = FALSE
  /\ mem' = _initialize_default_config
  /\ user_data' = [o \in Operators |-> NoUserData]
  /\ run' = [r \in Runners |-> IdleRun]
  /\ driver' = IdleDriver
  /\ hist' = [hist EXCEPT !.crashes = @ + 1, !.interrupted = RunningJobs \cap DOMAIN disk.scheduled_posts]
  /\ store' = [store EXCEPT !.lock = {}, !.pc = "idle", !.unsaved = FALSE, !.caller = ""]
  /\ UNCHANGED <<clock, disk, last_loaded, next_job, next_msg, next_post, transport>>

\* ConfigManager() at import: _load; main() starts the driver at once
restart ==
  /\ UNCHANGED store
  /\ ~alive
  /\ alive' = TRUE
  /\ mem' = _load(disk)
  /\ last_loaded' = clock
  /\ driver' = IdleDriver
  /\ UNCHANGED <<clock, disk, user_data, next_job, next_msg, next_post, run, transport, hist>>

(* -------- the system -------- *)
KeyboardData == {<<"toggle", c>> : c \in FIXED_CHANNELS}

\* the dispatch engine on its own: an operator fills a batch, selects
\* channels and confirms the post; the process can crash and be restarted
InitEngine ==
  /\ clock = 0
  /\ alive = TRUE
  /\ disk \in InitDocs
  /\ mem = disk
  /\ last_loaded = 0
  /\ user_data = [o \in Operators |-> NoUserData]
  /\ next_job = 1
  /\ next_msg = 1
  /\ next_post = 1
  /\ driver = IdleDriver
  /\ run = [r \in Runners |-> IdleRun]
  /\ transport \in {FreeTransport} \cup {[free |-> FALSE, fail_on |-> {c}] : c \in FIXED_CHANNELS}
  /\ store = FileInPlace
  /\ hist = NoHist

NextEngine ==
  \/ \E op \in Operators : add_to_batch(op)
  \/ \E op \in Operators, data \in ToggleData : toggle(op, data)
  \/ \E op \in Operators : confirm_post(op)
  \/ \E op \in Operators, o \in {"ok", "error", "raise"} : run_begin(op, o)
  \/ \E op \in Operators, o \in {"ok", "copy_fail", "footer_fail"} : run_step(op, o)
  \/ \E op \in Operators : run_complete(op)
  \/ \E op \in Operators : run_summary(op)
  \/ crash
  \/ restart

SpecEngine == InitEngine /\ [][NextEngine]_vars

\* the schedule handlers: an operator with one message in the batch selects
\* channels, schedules, reschedules and cancels jobs
NextSched ==
  \/ Tick
  \/ \E op \in Operators : clear_batch(op)
  \/ \E op \in Operators, data \in KeyboardData : toggle(op, data)
  \/ \E op \in Operators : schedule_batch_menu(op)
  \/ \E op \in Operators, j \in 1..MaxJobs : reschedule_prompt(op, j)
  \/ \E op \in Operators, wf \in BOOLEAN, t \in ScheduleTimes : handle_schedule_input(op, wf, t)
  \/ \E op \in Operators, j \in 1..MaxJobs : schedule_delete(op, j)

SpecSched == Init /\ [][NextSched]_vars

\* the Run Driver: an operator who has selected both fixed channels
\* schedules and cancels jobs while the driver polls and runs them; the
\* process can crash and be restarted
InitDriver ==
  /\ clock = 0
  /\ alive = TRUE
  /\ disk = [_initialize_default_config EXCEPT !.settings = [DefaultSettings EXCEPT !.max_retries = 1]]
  /\ mem = disk
  /\ last_loaded = 0
  /\ user_data = [o \in Operators |-> [NoUserData EXCEPT !.has_batch = TRUE, !.batch = <<1>>, !.batch_created = 0, !.selected_channels = FIXED_CHANNELS]]
  /\ next_job = 1
  /\ next_msg = 2
  /\ next_post = 1
  /\ driver = IdleDriver
  /\ run = [r \in Runners |-> IdleRun]
  /\ transport = FreeTransport
  /\ store = FileInPlace
  /\ hist = NoHist

NextDriver ==
  \/ Tick
  \/ LongWait
  \/ \E op \in Operators : schedule_batch_menu(op)
  \/ \E op \in Operators, wf \in BOOLEAN, t \in ScheduleTimes : handle_schedule_input(op, wf, t)
  \/ \E op \in Operators, j \in 1..MaxJobs : schedule_delete(op, j)
  \/ poll
  \/ \E ok \in BOOLEAN : driver_notify(ok)
  \/ driver_failnotify(TRUE)
  \/ \E o \in {"ok", "error", "raise"} : run_begin("driver", o)
  \/ \E o \in {"ok", "copy_fail"} : run_step("driver", o)
  \/ run_complete("driver")
  \/ run_summary("driver")
  \/ crash
  \/ restart

SpecDriver == InitDriver /\ [][NextDriver]_vars

\* a scheduled run with an operator at the settings menu: one job is in the
\* table and due, the driver is about to poll
InitSettings ==
  /\ clock = FirstTime
  /\ alive = TRUE
  /\ disk = [_initialize_default_config EXCEPT
               !.settings = [DefaultSettings EXCEPT !.max_retries = 1],
               !.scheduled_posts = Put(NoJobs, 1, [time |-> FirstTime, batch_ids |-> <<1>>, batch_size |-> 1,
                                                   channels |-> FIXED_CHANNELS, user_id |-> "op1"])]
  /\ mem = disk
  /\ last_loaded = 0
  /\ user_data = [o \in Operators |-> [NoUserData EXCEPT !.has_batch = TRUE, !.batch = <<1>>, !.batch_created = 0, !.selected_channels = FIXED_CHANNELS]]
  /\ next_job = 2
  /\ next_msg = 2
  /\ next_post = 1
  /\ driver = IdleDriver
  /\ run = [r \in Runners |-> IdleRun]
  /\ transport = FreeTransport
  /\ store = FileInPlace
  /\ hist = NoHist

NextSettings ==
  \/ Tick
  \/ \E op \in Operators, kind \in SettingsPrompts : settings_prompt(op, kind)
  \/ \E op \in Operators, t \in SettingsTexts : handle_settings_input(op, t)
  \/ \E op \in Operators : toggle(op, <<"toggle", "notifications">>)
  \/ poll
  \/ driver_notify(TRUE)
  \/ run_begin("driver", "ok")
  \/ \E o \in {"ok", "copy_fail", "footer_fail"} : run_step("driver", o)
  \/ run_complete("driver")
  \/ run_summary("driver")

SpecSettings == InitSettings /\ [][NextSettings]_vars

\* an operator who reschedules a job while the Run Driver polls and runs
\* it; the sends and the run of the driver can raise
NextResched ==
  \/ Tick
  \/ \E op \in Operators, j \in 1..MaxJobs : reschedule_prompt(op, j)
  \/ \E op \in Operators, t \in {FirstTime + 5, FirstTime + 10} : handle_schedule_input(op, TRUE, t)
  \/ poll
  \/ \E ok \in BOOLEAN : driver_notify(ok)
  \/ \E ok \in BOOLEAN : driver_failnotify(ok)
  \/ \E o \in {"ok", "error", "raise"} : run_begin("driver", o)
  \/ \E o \in {"ok", "copy_fail"} : run_step("driver", o)
  \/ run_complete("driver")
  \/ run_summary("driver")

SpecResched == InitSettings /\ [][NextResched]_vars

\* an operator who posts, at once or days later, while one of the operator's
\* jobs is due: the handlers and the Run Driver are coroutines of one event
\* loop
NextOverlap ==
  \/ Tick
  \/ LongWait
  \/ \E op \in Operators : confirm_post(op)
  \/ poll
  \/ driver_notify(TRUE)
  \/ \E r \in Runners : run_begin(r, "ok")
  \/ \E r \in Runners, o \in {"ok", "copy_fail"} : run_step(r, o)
  \/ \E r \in Runners : run_complete(r)
  \/ \E r \in Runners : run_summary(r)

SpecOverlap == InitSettings /\ [][NextOverlap]_vars

\* an operator whose batch is nearly full goes on adding messages and text
\* files; the messages already in the batch were sent before, and are
\* numbered backwards from 0
NearlyFull == {MAX_BATCH_MESSAGES - 2, MAX_BATCH_MESSAGES - 1}

InitBatch ==
  /\ clock = 0
  /\ alive = TRUE
  /\ disk = _initialize_default_config
  /\ mem = disk
  /\ last_loaded = 0
  /\ \E n \in NearlyFull :
        user_data = [o \in Operators |-> [NoUserData EXCEPT !.has_batch = TRUE, !.batch = [i \in 1..n |-> i - n], !.batch_created = 0]]
  /\ next_job = 1
  /\ next_msg = 1
  /\ next_post = 1
  /\ driver = IdleDriver
  /\ run = [r \in Runners |-> IdleRun]
  /\ transport = FreeTransport
  /\ store = FileInPlace
  /\ hist = NoHist

NextBatch ==
  \/ Tick
  \/ \E op \in Operators : add_to_batch(op)
  \/ \E op \in Operators, n \in 0..MaxFileMsgs : add_text_file(op, n)
  \/ \E op \in Operators : clear_batch(op)
  \/ \E op \in Operators, data \in KeyboardData : toggle(op, data)
  \/ \E op \in Operators : schedule_batch_menu(op)

SpecBatch == InitBatch /\ [][NextBatch]_vars

\* the texts an operator sends to a channel prompt, and the buttons of the
\* channel keyboard and of the inline-search results the operator presses
ChannelTexts == {"-1001234567890", "-1002504723776", "channel"}

RosterData == {<<"toggle", "-1002504723776">>, <<"toggle", "-1001234567890">>, <<"toggle", "channel", "-1002504723776">>}

\* an operator with one message in the batch builds a selection while
\* channels are added to the roster and removed from it, and creates jobs
NextRoster ==
  \/ \E op \in Operators, data \in RosterData : toggle(op, data)
  \/ \E op \in Operators : select_all(op)
  \/ \E op \in Operators, kind \in ChannelPrompts : channel_prompt(op, kind)
  \/ \E op \in Operators, cid \in ChannelTexts \ FIXED_CHANNELS : handle_channel_input(op, cid)
  \/ \E op \in Operators : schedule_batch_menu(op)
  \/ \E op \in Operators, t \in {FirstTime, FirstTime + 5} : handle_schedule_input(op, TRUE, t)

SpecRoster == Init /\ [][NextRoster]_vars

\* an operator adds channels and asks for removals, of fixed channels too,
\* and builds a selection meanwhile
NextChannels ==
  \/ Tick
  \/ \E op \in Operators, data \in RosterData : toggle(op, data)
  \/ \E op \in Operators : select_all(op)
  \/ \E op \in Operators, kind \in ChannelPrompts : channel_prompt(op, kind)
  \/ \E op \in Operators, cid \in ChannelTexts : handle_channel_input(op, cid)

SpecChannels == Init /\ [][NextChannels]_vars

(* ======================= properties ======================= *)

ChannelSet(rs) == {rs.chans[i] : i \in 1..Len(rs.chans)}

(* C1: every run of execute_post that reaches completion satisfies
   succeeded + (number of entries of the failure map) = |M| * |C|,
   whatever the transport answered on each call. *)
C1_CellAccounting ==
  \A r \in Runners :
     run[r].pc = "summary" =>
        run[r].success_count + FailedCount(run[r]) = Len(run[r].batch_ids) * Cardinality(ChannelSet(run[r]))

\* a completed run of two messages on several channels with successes,
\* transport failures and a malformed channel
C1_Witness ==
  \E r \in Runners :
     /\ run[r].pc = "summary"
     /\ Len(run[r].batch_ids) >= 2
     /\ "channel" \in ChannelSet(run[r])
     /\ run[r].success_count > 0
     /\ \E c \in DOMAIN run[r].failed_posts : \E i \in 1..Len(run[r].failed_posts[c]) : run[r].failed_posts[c][i].error = "TransportError"

(* C9: within one run each cell receives at most max_retries + 1 delivery
   attempts, exactly max_retries + 1 attempts before it is recorded as
   failed, and no further attempt after its first successful delivery. *)
C9_AttemptBudget ==
  \A r \in Runners :
     /\ run[r].attempt <= run[r].max_retries
     /\ \A c \in DOMAIN run[r].failed_posts : \A i \in 1..Len(run[r].failed_posts[c]) :
           run[r].failed_posts[c][i].tries = run[r].max_retries + 1
     /\ run[r].copies <= 1

(* C10: if the transport fails every delivery to one selected channel B and
   succeeds on every delivery to the other selected channels, the completed
   run has succeeded = |M| * (|C| - 1) and a failure map of exactly |M|
   entries, all under B. *)
C10_OneFailingChannel ==
  \A r \in Runners : \A B \in ChannelSet(run[r]) :
     (run[r].pc = "summary" /\ ~transport.free /\ transport.fail_on = {B}) =>
        /\ run[r].success_count = Len(run[r].batch_ids) * (Cardinality(ChannelSet(run[r])) - 1)
        /\ DOMAIN run[r].failed_posts = {B}
        /\ Len(run[r].failed_posts[B]) = Len(run[r].batch_ids)

(* -------- scheduling claims (SpecSched) -------- *)

\* the table handle_schedule_input works on
Table == get_config.scheduled_posts

\* the operator has the create prompt open and sends a well-formed future time
\* with a non-empty batch and a non-empty selection
CreateReady(op, t) ==
  /\ HandlerFree
  /\ user_data[op].schedule_input = "schedule_batch"
  /\ t >= clock + MIN_LEAD_MINUTES
  /\ user_data[op].batch # <<>>
  /\ user_data[op].selected_channels # {}

\* some job of the table shares a channel and lies strictly less than 300 s away
CloserThan300(table, t, chans) ==
  \E j \in DOMAIN table : table[j].channels \cap chans # {} /\ Abs(table[j].time - t) * 60 < 300

\* some job of the table shares a channel and lies 300 s away or less
Within300(table, t, chans) ==
  \E j \in DOMAIN table : table[j].channels \cap chans # {} /\ Abs(table[j].time - t) * 60 <= 300

\* the create request of op for time t is handled
CreateStep(op, t) == CreateReady(op, t) /\ handle_schedule_input(op, TRUE, t)

\* the tables in memory and on disk after an accepted create
Stored(op, t) ==
  /\ next_job' = next_job + 1
  /\ next_job \in DOMAIN mem'.scheduled_posts /\ mem'.scheduled_posts[next_job] = NewJob(op, t)
  /\ disk'.scheduled_posts = mem'.scheduled_posts
  /\ \A j \in DOMAIN Table : j \in DOMAIN mem'.scheduled_posts /\ mem'.scheduled_posts[j] = Table[j]

(* C4 (as the code has it): a create request is refused as a conflict exactly
   when some existing job shares a channel with the requested channel set and
   has a due time strictly less than 300 seconds from the requested time; a
   request 300 seconds or more from every job sharing a channel, or disjoint
   from every near job, is accepted and the job is stored in memory and on
   disk; a refused request leaves the table as it was. *)
C4_ConflictRule ==
  /\ [](\A op \in Operators : \A t \in ScheduleTimes :
          CreateReady(op, t) =>
             (schedule_verdict(op, TRUE, t) = "conflict" <=> CloserThan300(Table, t, user_data[op].selected_channels)))
  /\ [][\A op \in Operators : \A t \in ScheduleTimes :
          CreateStep(op, t) =>
             IF CloserThan300(Table, t, user_data[op].selected_channels)
             THEN mem'.scheduled_posts = Table /\ disk'.scheduled_posts = disk.scheduled_posts /\ next_job' = next_job
             ELSE Stored(op, t)]_vars

\* two stored jobs that share a channel and lie exactly 300 s apart: the later
\* create was accepted on the boundary
C4_Witness ==
  \E j, k \in DOMAIN mem.scheduled_posts :
     /\ j < k
     /\ mem.scheduled_posts[j].channels \cap mem.scheduled_posts[k].channels # {}
     /\ Abs(mem.scheduled_posts[j].time - mem.scheduled_posts[k].time) * 60 = 300
     /\ disk.scheduled_posts = mem.scheduled_posts

(* C4 (as stated): a create request is refused as a conflict exactly when some
   existing job within 300 seconds of the requested time shares a channel with
   it; only a request more than 300 seconds away, or disjoint, is accepted. *)
C4_Within300 ==
  \A op \in Operators : \A t \in ScheduleTimes :
     CreateReady(op, t) =>
        (schedule_verdict(op, TRUE, t) = "conflict" <=> Within300(Table, t, user_data[op].selected_channels))

(* C5: at every moment no two jobs of the scheduled-job table are less than
   5 minutes apart while sharing a channel, whether the table was built by
   creates or by reschedules. *)
C5_NoCloseJobs ==
  \A j, k \in DOMAIN mem.scheduled_posts :
     (j # k /\ mem.scheduled_posts[j].channels \cap mem.scheduled_posts[k].channels # {}) =>
        Abs(mem.scheduled_posts[j].time - mem.scheduled_posts[k].time) * 60 >= 300

(* C6: rescheduling a job to a valid time within 300 seconds of its own
   current time succeeds when no other job conflicts: the job is not counted
   against itself. *)
C6_SelfExcluded ==
  \A op \in Operators : \A t \in ScheduleTimes :
     LET j == user_data[op].reschedule_job_id
     IN  ( /\ HandlerFree
           /\ user_data[op].schedule_input = "reschedule_batch"
           /\ j \in DOMAIN Table
           /\ t >= clock + MIN_LEAD_MINUTES
           /\ user_data[op].batch # <<>>
           /\ user_data[op].selected_channels # {}
           /\ Abs(Table[j].time - t) * 60 <= 300
           /\ \A k \in DOMAIN Table \ {j} : Abs(Table[k].time - t) * 60 > 300 )
         => schedule_verdict(op, TRUE, t) = "rescheduled"

(* -------- Run Driver claims (SpecDriver) -------- *)

(* C2: when the Run Driver found a job due and its dispatch run completed,
   the job is absent from the scheduled-job table in memory and as saved,
   and no later poll runs that job again, whatever the duration of the run. *)
C2_RemovedRunOnce ==
  \A j \in hist.completed :
     /\ j \notin DOMAIN disk.scheduled_posts
     /\ alive => j \notin DOMAIN mem.scheduled_posts
     /\ j \notin hist.rerun

\* the run of job j by the driver is between its start and its last cell
InRun(j) == run["driver"].pc \in {"begin", "cells"} /\ run["driver"].job_id = j

\* every cell of the run has been processed
AllCellsDone(rs) == rs.pc = "cells" /\ SkipInvalid(rs).cell = Len(rs.batch_ids) * Len(rs.chans)

(* C3: between the start of a job's run and the end of its last cell neither
   the Run Driver nor the Dispatch Engine removes the job from the persisted
   table (only an operator's delete can), and a restart after a crash in the
   middle of the run loads a table that still holds the job. *)
C3_KeptUntilDone ==
  /\ [][\A j \in 1..MaxJobs :
          (InRun(j) /\ j \in DOMAIN disk.scheduled_posts /\ j \notin DOMAIN disk'.scheduled_posts) =>
             (AllCellsDone(run["driver"]) \/ \E op \in Operators : schedule_delete(op, j))]_vars
  /\ [][(~alive /\ alive') =>
          (hist.interrupted \subseteq DOMAIN mem'.scheduled_posts /\ disk' = disk)]_vars

\* a job whose run was cut by a crash is run again after the restart
C3_Witness ==
  \E j \in hist.interrupted : alive /\ hist.crashes > 0 /\ InRun(j) /\ j \in DOMAIN disk.scheduled_posts

(* C7: once an operator has cancelled a scheduled job whose run had not
   started, the run of that job never starts, even when the cancel arrives
   while the Run Driver is running another due job of the same poll. *)
C7_CancelledNeverStarts == hist.started_after_cancel = {}

\* the due time lies more than 7 days before now (minutes)
OverSevenDays(now, job_time) == (now - job_time) * 60 > 7 * 24 * 3600

\* the ids in the driver's snapshot
Queued(d) == {d.queue[i].id : i \in 1..Len(d.queue)}

(* C8 (as the code has it): a poll removes from the table, in memory and on
   disk, exactly the jobs whose due time is more than 7 days before the time
   of the poll, and hands none of them to the Dispatch Engine in that poll. *)
C8_PurgeAtPoll ==
  [][poll =>
       \A j \in DOMAIN get_config.scheduled_posts :
          IF OverSevenDays(clock, get_config.scheduled_posts[j].time)
          THEN /\ j \notin DOMAIN mem'.scheduled_posts
               /\ j \notin DOMAIN disk'.scheduled_posts
               /\ j \notin Queued(driver')
               /\ driver'.job # j
          ELSE /\ j \in DOMAIN mem'.scheduled_posts
               /\ j \in DOMAIN disk'.scheduled_posts]_vars

\* a job that was never run has been purged, next to one that was kept
C8_Witness ==
  \E j \in hist.purged :
     /\ j \notin hist.started
     /\ j \notin DOMAIN disk.scheduled_posts
     /\ j \notin DOMAIN mem.scheduled_posts
     /\ DOMAIN disk.scheduled_posts # {}

(* C8 (as stated): a job more than 7 days past due is removed by the purge
   of the poll, and no job is both handed to the Dispatch Engine and later
   removed by the purge. *)
C8_PurgedNeverRun ==
  /\ hist.purged \cap hist.started = {}
  /\ (driver.pc \in {"notify", "running", "failnotify"}) =>
        \A j \in DOMAIN mem.scheduled_posts : ~OverSevenDays(driver.now, mem.scheduled_posts[j].time)

(* -------- footer, counters and settings (SpecEngine) -------- *)

(* C11: with a non-empty footer every cell counted as succeeded has caused
   exactly one footer transport call, no footer call is made for a cell none
   of whose deliveries went through, and with an empty footer no footer call
   is made. *)
C11_FooterCalls ==
  [][\A r \in Runners :
       /\ (run'[r].success_count = run[r].success_count + 1) =>
             run'[r].footers = (IF run[r].footer = "" THEN 0 ELSE 1)
       /\ (run[r].pc = "cells" /\ FailedCount(run'[r]) > FailedCount(run[r]) /\ run'[r].copies = 0) =>
             run'[r].footers = 0
       /\ run[r].footer = "" => run'[r].footers = 0]_vars

\* the step in which the run of r passes its last cell and updates the store
Completes(r) == run[r].pc = "cells" /\ run'[r].pc = "summary"

\* the post count a document holds for an admin, 0 when it has no entry
AdminPosts(doc, a) == IF a \in DOMAIN doc.admin_stats THEN doc.admin_stats[a] ELSE 0

\* the post count a document holds for a channel, 0 when it has no entry
ChannelPosts(doc, c) == IF c \in DOMAIN doc.channels THEN doc.channels[c] ELSE 0

\* the number of cells of the run that succeeded on channel c
SucceededOn(rs, c) == IF c \in DOMAIN rs.ok_on THEN rs.ok_on[c] ELSE 0

(* C12: when a run started by operator a completes with succeeded count s,
   the durable counters change by exactly total posts += s, total batches
   += 1 and post count of a += s, and one analytics record is written under
   the run's fresh id with post_count = s and the run's channel list; the
   other analytics records stay as they were. *)
C12_CountersOnCompletion ==
  [][\A r \in Runners :
       Completes(r) =>
          LET s == run'[r].success_count
              a == run[r].user_id
              id == run[r].post_id
          IN  /\ disk'.stats.posts = disk.stats.posts + s
              /\ disk'.stats.batches = disk.stats.batches + 1
              /\ AdminPosts(disk', a) = AdminPosts(disk, a) + s
              /\ \A b \in Operators \ {a} : AdminPosts(disk', b) = AdminPosts(disk, b)
              /\ id \notin DOMAIN disk.post_analytics
              /\ DOMAIN disk'.post_analytics = DOMAIN disk.post_analytics \cup {id}
              /\ disk'.post_analytics[id].post_count = s
              /\ disk'.post_analytics[id].channels = run[r].chans
              /\ \A p \in DOMAIN disk.post_analytics : disk'.post_analytics[p] = disk.post_analytics[p]
              /\ mem'.stats = disk'.stats /\ mem'.admin_stats = disk'.admin_stats
              /\ mem'.post_analytics = disk'.post_analytics]_vars

\* a second run has completed with some successes and the counters hold the
\* sum of both runs
C12_Witness ==
  \E r \in Runners :
     /\ run[r].pc = "summary"
     /\ run[r].success_count > 0
     /\ disk.stats.batches = 2
     /\ disk.stats.posts > run[r].success_count
     /\ run[r].post_id \in DOMAIN disk.post_analytics
     /\ AdminPosts(disk, run[r].user_id) = disk.stats.posts

(* C13: when a run completes, the durable post count of each channel c
   increases by exactly the number of cells of the run that succeeded on c:
   by 0 for a channel on which every cell failed, by |M| for a channel on
   which every cell succeeded. *)
C13_ChannelCounts ==
  [][\A r \in Runners :
       Completes(r) =>
          \A c \in FIXED_CHANNELS \cup ChannelSet(run[r]) :
             ChannelPosts(disk', c) = ChannelPosts(disk, c) + SucceededOn(run'[r], c)]_vars

(* C14: a run acts on the delivery settings (delay, max retries, footer,
   notification flag) as they were when it started: no step taken while the
   run is in progress, an operator's change of the settings included,
   changes the settings the run acts on. *)
C14_SettingsSnapshot ==
  [][\A r \in Runners :
       (run[r].pc \in {"begin", "cells", "summary"} /\ run'[r].pc \in {"begin", "cells", "summary"}) =>
          RunSettings(run[r])' = RunSettings(run[r])]_vars

\* the driver's run is at its cells, and since it started the operator has
\* changed max retries, footer and delay in the store
C14_Witness ==
  /\ run["driver"].pc = "cells"
  /\ run["driver"].cell > 0
  /\ run["driver"].max_retries # mem.settings.max_retries
  /\ run["driver"].footer # mem.settings.footer
  /\ run["driver"].delay # mem.settings.default_delay
  /\ disk.settings = mem.settings

(* -------- the job table under operator actions (SpecSched) -------- *)
\* what a stored job is to deliver and where
JobContent(doc, j) ==
  [batch_ids |-> doc.scheduled_posts[j].batch_ids, channels |-> doc.scheduled_posts[j].channels]

(* C15: the message list and the channel set stored in a job are the same
   after every step as before it, in memory and on disk, for as long as the
   job is in the table, whatever the operator does to the batch, the
   selection or the job's due time. *)
C15_JobContentFixed ==
  [][\A j \in 1..MaxJobs :
       /\ (j \in DOMAIN disk.scheduled_posts /\ j \in DOMAIN disk'.scheduled_posts) =>
             JobContent(disk', j) = JobContent(disk, j)
       /\ (j \in DOMAIN disk.scheduled_posts /\ j \in DOMAIN mem'.scheduled_posts) =>
             JobContent(mem', j) = JobContent(disk, j)
       /\ (j \in DOMAIN mem.scheduled_posts /\ j \in DOMAIN mem'.scheduled_posts) =>
             JobContent(mem', j) = JobContent(mem, j)]_vars

\* a job is stored while its operator holds another batch and another
\* selection, and a second job created later is due before it
C15_Witness ==
  /\ 1 \in DOMAIN disk.scheduled_posts
  /\ 2 \in DOMAIN disk.scheduled_posts
  /\ disk.scheduled_posts[2].time < disk.scheduled_posts[1].time
  /\ user_data["op1"].batch # disk.scheduled_posts[1].batch_ids
  /\ user_data["op1"].selected_channels # disk.scheduled_posts[1].channels
  /\ user_data["op1"].selected_channels # {}

(* C16: a reschedule of a job that is in the table to a well-formed time at
   least 5 minutes ahead, with every other job more than 300 seconds from
   that time and the job's own time at least 300 seconds from it, is
   accepted whatever the operator's current batch and channel selection
   are, empty ones included. *)
C16_RescheduleAnySelection ==
  \A op \in Operators : \A t \in ScheduleTimes :
     LET j == user_data[op].reschedule_job_id
     IN  ( /\ HandlerFree
           /\ user_data[op].schedule_input = "reschedule_batch"
           /\ j \in DOMAIN Table
           /\ t >= clock + MIN_LEAD_MINUTES
           /\ Abs(Table[j].time - t) * 60 >= 300
           /\ \A k \in DOMAIN Table \ {j} : Abs(Table[k].time - t) * 60 > 300 )
         => schedule_verdict(op, TRUE, t) = "rescheduled"

(* -------- cancel and run order (SpecDriver) -------- *)
(* C17: a cancel of a job whose run is in progress leaves the table as it
   is, in memory and on disk; a cancel of a job that is in the table and
   not being run removes that job and no other; a cancel of a job that is
   not in the table leaves the table as it is. *)
C17_CancelOnlyPending ==
  [][\A op \in Operators : \A j \in 1..MaxJobs :
       schedule_delete(op, j) =>
          IF j \in DOMAIN Table /\ ~InRun(j)
          THEN /\ mem'.scheduled_posts = Pop(Table, j)
               /\ disk'.scheduled_posts = Pop(Table, j)
          ELSE /\ mem'.scheduled_posts = Table
               /\ disk'.scheduled_posts = disk.scheduled_posts]_vars

\* job a comes before job b in ascending order of due time, ties by job ID
Earlier(a, b) == a.time < b.time \/ (a.time = b.time /\ a.id < b.id)

(* C18: the jobs that are due at a poll are taken up by the Run Driver in
   ascending order of due time, jobs with equal due time in ascending order
   of job ID: in the sequence the poll's loop walks through, a due job that
   comes before another due job is earlier in that order. *)
C18_DueOrder ==
  [][poll =>
       \A i, k \in 1..Len(driver'.queue) :
          (i < k /\ IsDue(clock, driver'.queue[i].time) /\ IsDue(clock, driver'.queue[k].time)) =>
             Earlier(driver'.queue[i], driver'.queue[k])]_vars

(* -------- delivery order (SpecEngine) -------- *)
\* the run has a delivery attempt still to make
Pending(rs) == rs.pc = "cells" /\ SkipInvalid(rs).cell < total_operations(rs)

\* the message the next delivery attempt of the run is for
NextMessage(rs) == CellMessage(SkipInvalid(rs), SkipInvalid(rs).cell)

\* the place of message m in the batch of the run
BatchPlace(rs, m) == CHOOSE i \in 1..Len(rs.batch_ids) : rs.batch_ids[i] = m

(* C19: within a run the delivery attempts follow the batch: the message of
   each attempt, retries included, is never earlier in the batch than the
   message of the attempt before it, so every attempt of a message is made
   before the first attempt of any message that comes after it. *)
C19_BatchOrder ==
  [][\A r \in Runners :
       (Pending(run[r]) /\ Pending(run'[r])) =>
          BatchPlace(run[r], NextMessage(run[r])) <= BatchPlace(run'[r], NextMessage(run'[r]))]_vars

\* the run is retrying a delivery of the second message of its batch, to the
\* second of its channels, after the first message failed on a channel
C19_Witness ==
  \E r \in Runners :
     /\ Pending(run[r])
     /\ Len(run[r].batch_ids) = 2 /\ Len(run[r].chans) = 2
     /\ BatchPlace(run[r], NextMessage(run[r])) = 2
     /\ run[r].cell = 3
     /\ run[r].attempt > 0
     /\ FailedCount(run[r]) > 0

(* -------- create requests (SpecSched) -------- *)
\* the create prompt is open: the next text of the operator is a create request
CreatePrompt(op) == HandlerFree /\ user_data[op].schedule_input = "schedule_batch"

\* the request is one the handler refuses: the text does not parse, the time
\* is less than 5 minutes ahead, the batch or the selection is empty, or the
\* time conflicts with a stored job
Refusable(op, wellformed, t) ==
  \/ ~wellformed
  \/ t < clock + MIN_LEAD_MINUTES
  \/ user_data[op].batch = <<>>
  \/ user_data[op].selected_channels = {}
  \/ CloserThan300(Table, t, user_data[op].selected_channels)

(* C20: a create request that is refused (unparseable time, time less than
   5 minutes ahead, empty batch, empty selection, conflict) leaves the
   table, in memory and on disk, exactly as it was and uses up no job ID; an
   accepted create request adds exactly one job, under an ID that no job of
   the table has, and keeps every other job as it was. *)
C20_CreateAtomic ==
  [][\A op \in Operators : \A wf \in BOOLEAN : \A t \in ScheduleTimes :
       (CreatePrompt(op) /\ handle_schedule_input(op, wf, t)) =>
          IF Refusable(op, wf, t)
          THEN /\ mem'.scheduled_posts = mem.scheduled_posts
               /\ disk'.scheduled_posts = disk.scheduled_posts
               /\ next_job' = next_job
          ELSE /\ next_job \notin DOMAIN mem.scheduled_posts \cup DOMAIN disk.scheduled_posts
               /\ DOMAIN mem'.scheduled_posts = DOMAIN mem.scheduled_posts \cup {next_job}
               /\ \A j \in DOMAIN mem.scheduled_posts : mem'.scheduled_posts[j] = mem.scheduled_posts[j]
               /\ mem'.scheduled_posts[next_job].time = t
               /\ mem'.scheduled_posts[next_job].batch_ids = user_data[op].batch
               /\ mem'.scheduled_posts[next_job].channels = user_data[op].selected_channels
               /\ disk'.scheduled_posts = mem'.scheduled_posts
               /\ next_job' = next_job + 1]_vars

\* two creates were accepted, under the IDs 1 and 2, and a create was refused
\* while the table held a job
C20_Witness ==
  /\ DOMAIN disk.scheduled_posts = {1, 2}
  /\ disk.scheduled_posts = mem.scheduled_posts
  /\ next_job = 3
  /\ hist.refused

(* -------- run requests and the operator's batch (SpecEngine) -------- *)
(* C21: a run requested with an empty message list or an empty channel set
   starts no run, so no delivery call is made for it, and leaves the
   counters, the per-channel and per-admin counts and the analytics records,
   in memory and on disk, and the operator's batch and selection as they
   were. *)
C21_EmptyRunRejected ==
  [][\A op \in Operators :
       (confirm_post(op) /\ (user_data[op].batch = <<>> \/ user_data[op].selected_channels = {})) =>
          /\ run'[op].pc = "idle"
          /\ next_post' = next_post
          /\ disk' = disk
          /\ mem'.stats = mem.stats /\ mem'.channels = mem.channels
          /\ mem'.admin_stats = mem.admin_stats /\ mem'.post_analytics = mem.post_analytics
          /\ user_data'[op].batch = user_data[op].batch
          /\ user_data'[op].selected_channels = user_data[op].selected_channels]_vars

\* after a completed run with a delivered post, a request with a message in
\* the batch and no channel selected was rejected; nothing is running
C21_Witness ==
  /\ hist.rejected
  /\ user_data["op1"].batch # <<>>
  /\ user_data["op1"].selected_channels = {}
  /\ run["op1"].pc = "idle"
  /\ disk.stats.posts > 0
  /\ disk.stats.batches = 1

\* the run of the operator has started and has not reached its completion
InFlight(op) == run[op].pc \in {"begin", "cells"}

(* C22: while a run of the operator is in progress the operator's batch
   holds all the messages the run dispatches, and no step other than the
   one that completes the run takes a message out of the batch: neither the
   start of the run, nor a run that ends with an error, nor a crash of the
   process before completion. *)
C22_BatchKeptUntilCompletion ==
  /\ [](\A op \in Operators : InFlight(op) => user_data[op].batch = run[op].batch_ids)
  /\ [][\A op \in Operators :
          (InFlight(op) /\ ~run_complete(op)) => user_data'[op].batch = user_data[op].batch]_vars

\* the messages of a batch
Messages(batch) == {batch[i] : i \in 1..Len(batch)}

\* the cells of message m the run has recorded as failed
FailedCells(rs, m) ==
  {<<c, i>> \in (DOMAIN rs.failed_posts) \X (1..total_operations(rs)) :
      i <= Len(rs.failed_posts[c]) /\ rs.failed_posts[c][i].message_id = m}

\* message m of the run was delivered to at least one channel
Dispatched(rs, m) == m \in Messages(rs.batch_ids) /\ Cardinality(FailedCells(rs, m)) < Len(rs.chans)

(* C23: while the process is up and no run on a malformed channel is under
   way, a message leaves the operator's batch only in a step that clears
   the batch at the operator's request or in the completion of a run that
   delivered that message to at least one channel; a message none of whose
   cells succeeded stays in the batch. *)
C23_LeavesOnlyWhenDispatched ==
  [][\A op \in Operators : \A m \in Messages(user_data[op].batch) :
       ( /\ alive'
         /\ \A c \in ChannelSet(run[op]) : validate_channel_id(c)
         /\ m \notin Messages(user_data'[op].batch) ) =>
          \/ clear_batch(op)
          \/ run_complete(op) /\ Dispatched(SkipInvalid(run[op]), m)]_vars

(* -------- runs of one session (SpecOverlap) -------- *)
\* a run started for runner r has not yet completed
Running(r) == run[r].pc \in {"begin", "cells"}

(* C24: at no time are two dispatch runs of the same operator in progress
   together: while an immediate run of the operator has not completed, no
   run of a scheduled job of that operator is in progress in the Run
   Driver. *)
C24_OneRunPerSession ==
  \A op \in Operators : ~(Running(op) /\ Running("driver") /\ run["driver"].user_id = op)

(* -------- the size of the batch (SpecBatch) -------- *)
(* C25: after any sequence of additions, single messages and text files
   split into several messages, the batch of an operator never holds more
   than 100 message references. *)
C25_BatchCapacity ==
  \A op \in Operators : Len(user_data[op].batch) <= MAX_BATCH_MESSAGES

\* the batch of the operator was created more than BATCH_EXPIRY_HOURS ago
BatchExpired(op) ==
  /\ user_data[op].batch_created >= 0
  /\ Sec(clock - user_data[op].batch_created) > BATCH_EXPIRY_HOURS * 3600

(* C26: a batch older than 6 hours, measured from its creation, is void: a
   post confirmed by the operator after that age starts no run on the
   messages of the batch. *)
C26_ExpiredBatchNotRun ==
  [][\A op \in Operators :
       (BatchExpired(op) /\ user_data[op].batch # <<>> /\ confirm_post(op)) => run'[op].pc = "idle"]_vars

(* -------- the channels of a job (SpecRoster) -------- *)
(* C27: a job that a create adds to the table has a non-empty channel set,
   and every channel of it is a channel of the roster, fixed or added by an
   operator, at the moment of the create, however the selection was built
   and whatever channels were removed before. *)
C27_JobChannelsInRoster ==
  [][\A op \in Operators : \A t \in ScheduleTimes :
       (CreatePrompt(op) /\ handle_schedule_input(op, TRUE, t) /\ next_job' = next_job + 1) =>
          /\ mem'.scheduled_posts[next_job].channels # {}
          /\ mem'.scheduled_posts[next_job].channels \subseteq Roster(get_config)]_vars

(* -------- malformed channels in a run (SpecEngine) -------- *)
\* the identifiers of a selection that are words, not channel IDs
Words == {"channel", "notifications"}

\* the failure records the run holds under channel c
FailuresOn(rs, c) == IF c \in DOMAIN rs.failed_posts THEN rs.failed_posts[c] ELSE <<>>

(* C28: a run makes no transport call to a channel whose identifier is
   malformed: no cell on it succeeds and each failure recorded under it was
   recorded without a delivery attempt; when the run has completed, every
   cell on a malformed channel has been skipped with such a record and
   every cell on a well-formed channel has been attempted, ending as a
   success or as a failure recorded after at least one attempt. *)
C28_MalformedSkipped ==
  \A r \in Runners : \A c \in ChannelSet(run[r]) :
     /\ c \in Words =>
           /\ SucceededOn(run[r], c) = 0
           /\ \A i \in 1..Len(FailuresOn(run[r], c)) : FailuresOn(run[r], c)[i].tries = 0
           /\ run[r].pc = "summary" => Len(FailuresOn(run[r], c)) = Len(run[r].batch_ids)
     /\ c \notin Words =>
           /\ \A i \in 1..Len(FailuresOn(run[r], c)) : FailuresOn(run[r], c)[i].tries >= 1
           /\ run[r].pc = "summary" =>
                 SucceededOn(run[r], c) + Len(FailuresOn(run[r], c)) = Len(run[r].batch_ids)

\* a completed run on a fixed channel and on the word "channel": the fixed
\* channel received a message, the cells of the word were skipped
C28_Witness ==
  \E r \in Runners :
     /\ run[r].pc = "summary"
     /\ ChannelSet(run[r]) = {"-1002504723776", "channel"}
     /\ Len(run[r].batch_ids) = 2
     /\ SucceededOn(run[r], "-1002504723776") >= 1
     /\ Len(FailuresOn(run[r], "channel")) = 2

(* -------- progress snapshots (SpecEngine) -------- *)
(* C29: the last progress snapshot of a completed run reports completed =
   |M| * |C| and remaining = 0, for every channel selection, selections
   that hold a malformed identifier included. *)
C29_LastSnapshotComplete ==
  \A r \in Runners :
     run[r].pc = "summary" =>
        /\ run[r].snapshot.completed = Len(run[r].batch_ids) * Len(run[r].chans)
        /\ run[r].snapshot.remaining = 0

(* -------- ConfigManager._load and _save, step by step -------- *)
\* what happens to CONFIG_FILE between two calls: it is deleted, damaged,
\* protected, or replaced by another document
file_change(f, doc) ==
  /\ store.pc = "idle"
  /\ store.file # f \/ (f = "present" /\ disk # doc)
  /\ disk' = IF f = "present" THEN doc ELSE disk
  /\ store' = [store EXCEPT !.file = f, !.edited = @ \/ ~Intact(store.file) \/ ~Intact(f) \/ disk' # disk]
  /\ UNCHANGED <<clock, alive, mem, last_loaded, user_data, next_job, next_msg, next_post, driver, run, transport, hist>>

\* ConfigManager.__new__ at import: the first instance calls _load
construct ==
  /\ ~alive
  /\ store.pc = "idle"
  /\ alive' = TRUE
  /\ store' = [store EXCEPT !.pc = "load", !.caller = "__new__"]
  /\ UNCHANGED <<clock, disk, mem, last_loaded, user_data, next_job, next_msg, next_post, driver, run, transport, hist>>

\* get_config with a stale cache calls _load
get_config_stale ==
  /\ alive
  /\ store.pc = "idle"
  /\ Stale
  /\ store' = [store EXCEPT !.pc = "load", !.caller = "get_config"]
  /\ UNCHANGED <<clock, alive, disk, mem, last_loaded, user_data, next_job, next_msg, next_post, driver, run, transport, hist>>

\* FileLock.acquire with the default timeout: returns once no other
\* FileLock object holds CONFIG_LOCK, and waits as long as one does
Acquirable(st) == st.lock = {}

\* _load, `with lock:` entered
load_acquire ==
  /\ store.pc = "load"
  /\ Acquirable(store)
  /\ store' = [store EXCEPT !.lock = @ \cup {"_load"}, !.pc = "load_locked"]
  /\ UNCHANGED <<clock, alive, disk, mem, last_loaded, user_data, next_job, next_msg, next_post, driver, run, transport, hist>>

\* _load, the body of `with lock:`. A present file is parsed and the lock
\* released; open or json.load raising leaves the block, which releases the
\* lock, for the except clause; a missing file installs the default
\* document and calls _save inside the block
load_body ==
  /\ store.pc = "load_locked"
  /\ CASE Readable(store.file) ->
            /\ mem' = disk
            /\ last_loaded' = clock
            /\ store' = [store EXCEPT !.lock = @ \ {"_load"}, !.pc = "idle", !.unsaved = FALSE, !.edited = FALSE, !.caller = ""]
       [] store.file = "missing" ->
            /\ mem' = _initialize_default_config
            /\ store' = [store EXCEPT !.pc = "save", !.ret = "load_locked"]
            /\ UNCHANGED last_loaded
       [] OTHER ->
            /\ store' = [store EXCEPT !.lock = @ \ {"_load"}, !.pc = "load_except"]
            /\ UNCHANGED <<mem, last_loaded>>
  /\ UNCHANGED <<clock, alive, disk, user_data, next_job, next_msg, next_post, driver, run, transport, hist>>

\* _load, the except clause: the default document, then _save
load_except ==
  /\ store.pc = "load_except"
  /\ mem' = _initialize_default_config
  /\ store' = [store EXCEPT !.pc = "save", !.ret = "idle"]
  /\ UNCHANGED <<clock, alive, disk, last_loaded, user_data, next_job, next_msg, next_post, driver, run, transport, hist>>

\* _save, `with lock:` entered on a FileLock object of its own
save_acquire ==
  /\ store.pc = "save"
  /\ Acquirable(store)
  /\ store' = [store EXCEPT !.lock = @ \cup {"_save"}, !.pc = "save_locked"]
  /\ UNCHANGED <<clock, alive, disk, mem, last_loaded, user_data, next_job, next_msg, next_post, driver, run, transport, hist>>

\* _save, the body of `with lock:`: the file is written, or open raises
\* on a protected file and the except clause logs it; the lock of _save is
\* released, and _save called inside the block of _load returns there, which
\* ends that block and releases the lock of _load
save_body(written) ==
  /\ store.pc = "save_locked"
  /\ written = ~WriteRefused(store.file)
  /\ IF written
     THEN /\ disk' = mem
          /\ last_loaded' = clock
          /\ store' = [store EXCEPT !.file = "present", !.lock = {}, !.pc = "idle", !.ret = "idle", !.unsaved = FALSE, !.edited = FALSE, !.caller = ""]
     ELSE /\ store' = [store EXCEPT !.lock = {}, !.pc = "idle", !.ret = "idle", !.unsaved = TRUE, !.caller = ""]
          /\ UNCHANGED <<disk, last_loaded>>
  /\ UNCHANGED <<clock, alive, mem, user_data, next_job, next_msg, next_post, driver, run, transport, hist>>

\* handle_settings_input, the retry count: the document get_config returned
\* is changed in place and save_config is called
settings_save(r) ==
  /\ alive
  /\ store.pc = "idle"
  /\ ~Stale
  /\ mem.settings.max_retries # r
  /\ mem' = [mem EXCEPT !.settings.max_retries = r]
  /\ store' = [store EXCEPT !.pc = "save", !.ret = "idle"]
  /\ UNCHANGED <<clock, alive, disk, last_loaded, user_data, next_job, next_msg, next_post, driver, run, transport, hist>>

\* handle_channel_input, an add of a channel that is not listed: the
\* document get_config returned is changed in place and save_config is called
channel_save(cid) ==
  /\ alive
  /\ store.pc = "idle"
  /\ ~Stale
  /\ channels_after(mem, "add_channel", cid) # mem.channels
  /\ mem' = [mem EXCEPT !.channels = channels_after(mem, "add_channel", cid)]
  /\ store' = [store EXCEPT !.pc = "save", !.ret = "idle"]
  /\ UNCHANGED <<clock, alive, disk, last_loaded, user_data, next_job, next_msg, next_post, driver, run, transport, hist>>

\* the process is started on a file in any state, reads the store again
\* when the cache is stale, and can be killed and started again
InitStore ==
  /\ clock = 0
  /\ alive = FALSE
  /\ disk \in InitDocs
  /\ mem = _initialize_default_config
  /\ last_loaded = 0
  /\ user_data = [o \in Operators |-> NoUserData]
  /\ next_job = 1
  /\ next_msg = 1
  /\ next_post = 1
  /\ driver = IdleDriver
  /\ run = [r \in Runners |-> IdleRun]
  /\ transport = FreeTransport
  /\ store \in {[FileInPlace EXCEPT !.file = f] : f \in FileStates}
  /\ hist = NoHist

NextStore ==
  \/ Tick
  \/ \E f \in FileStates, doc \in InitDocs : file_change(f, doc)
  \/ construct
  \/ get_config_stale
  \/ load_acquire
  \/ load_body
  \/ load_except
  \/ save_acquire
  \/ \E written \in BOOLEAN : save_body(written)
  \/ \E r \in 1..MaxRetryChoice : settings_save(r)
  \/ \E cid \in ChannelTexts : channel_save(cid)
  \/ crash

SpecStore == InitStore /\ [][NextStore]_vars

(* -------- loading the store (SpecStore) -------- *)
(* C30: loading the store always comes back: the save that load issues
   for a missing, corrupt or unreadable file never waits for a lock that
   load itself holds, and load returns with the lock released. *)
C30_SaveNeverBlocked ==
  /\ store.pc = "save" => Acquirable(store)
  /\ store.pc = "idle" => store.lock = {}

(* C31: when a save fails the in-memory document stays authoritative: a
   later get_config in the same process, one made more than 60 seconds
   later included, still returns the changes whose save failed. *)
C31_UnsavedKept ==
  [][(alive /\ alive' /\ store.unsaved /\ store.pc = "load_locked") => mem' = mem]_vars

(* -------- the cache rule of get_config (SpecOverlap) -------- *)
(* C32: get_config reloads the document whenever the time elapsed since
   the last load or save exceeds 60 seconds, for every elapsed time,
   elapsed times of one day or more included, and returns the cached
   document otherwise. *)
C32_ReloadAfterSixtySeconds ==
  HandlerFree => (Stale <=> Sec(clock - last_loaded) > CACHE_SECONDS)

(* -------- the roster view (SpecStore) -------- *)
(* C33: two calls of get_all_channels with no mutation of the roster or
   the counters in between return the same result: the get_config inside
   the call, a reload included, leaves the roster view as it was, unless
   the file was changed from outside the process. *)
C33_RosterViewStable ==
  [][(alive /\ alive' /\ store.caller = "get_config" /\ store.pc = "load_locked" /\ Readable(store.file) /\ ~store.edited)
       => get_all_channels(mem') = get_all_channels(mem)]_vars

(* -------- fixed channels (SpecChannels) -------- *)
(* C34: after any sequence of add-channel and remove-channel operations
   every fixed channel is in get_all_channels with fixed = true; a remove
   request that names a fixed channel leaves the roster, in memory and on
   disk, as it was. *)
C34_FixedChannelsStay ==
  [][/\ \A c \in FIXED_CHANNELS :
          c \in DOMAIN get_all_channels(mem') /\ get_all_channels(mem')[c].fixed
     /\ \A op \in Operators : \A c \in FIXED_CHANNELS :
          (user_data[op].channel_input = "delete_channel" /\ handle_channel_input(op, c)) =>
             /\ get_all_channels(mem') = get_all_channels(mem)
             /\ disk'.channels = disk.channels]_vars

\* a remove request naming a fixed channel was made while an added channel
\* was listed, and the added channel is still listed
C34_Witness ==
  /\ hist.kept
  /\ "-1001234567890" \in DOMAIN get_all_channels(mem)
  /\ ~get_all_channels(mem)["-1001234567890"].fixed

(* -------- due time at the hand-over (SpecResched) -------- *)
(* C35: the Run Driver never hands a job to the Dispatch Engine before the
   job's current due time has been reached, a job rescheduled to a later
   time while the poll is in progress included. *)
C35_NotBeforeDue ==
  [][driver_notify(TRUE) =>
       LET id == Head(driver.queue).id
       IN  id \in DOMAIN mem'.scheduled_posts => IsDue(clock, mem'.scheduled_posts[id].time)]_vars

(* -------- copies per cell (SpecEngine) -------- *)
(* C36: within one run each message is copied to each channel at most
   once: no cell has two successful message deliveries, whatever
   message-delivery and footer-delivery failures the transport produces. *)
C36_OneCopyPerCell ==
  \A r \in Runners : run[r].copies <= 1

(* -------- the driver loop after a failure (SpecResched) -------- *)
(* C37: after any failure while handling one due job (raised by the run,
   by building the job's context or by the failure notice sent to the
   operator) the Run Driver loop keeps running: the coroutine never ends
   while the process is alive. *)
C37_DriverKeepsRunning ==
  alive => driver.pc # "dead"

(* -------- the counters of a progress snapshot (SpecEngine) -------- *)
(* C38: in every progress snapshot emitted during a run, completed =
   succeeded + failed, completed + remaining = |M| * |C|, and completed
   does not exceed |M| * |C|. *)
C38_SnapshotCounters ==
  \A r \in Runners :
     run[r].pc \in {"cells", "summary"} =>
        /\ run[r].snapshot.completed = run[r].snapshot.succeeded + run[r].snapshot.failed
        /\ run[r].snapshot.completed + run[r].snapshot.remaining = total_operations(run[r])
        /\ run[r].snapshot.completed <= total_operations(run[r])

(* -------- the age of a batch (SpecBatch) -------- *)
(* C39: whenever an operator's batch is not empty a creation timestamp is
   recorded for it, after any sequence of add_to_batch and clear_batch, so
   that the 6-hour expiry test of add_to_batch applies to it. *)
C39_BatchHasTimestamp ==
  \A op \in Operators : user_data[op].batch # <<>> => user_data[op].batch_created >= 0

====
